---- MODULE Spec2Model ----
(***************************************************************************)
(* Model of battsave (src/battsave.py): the control loop of main() that    *)
(* visits every configured plug once per pass, counts down a cooldown or   *)
(* runs control_plug(), the sampling pass that decides whether the relay   *)
(* is switched off.                                                        *)
(*                                                                         *)
(* Power values are kept in milliwatts (the unit of the device's power_mw  *)
(* field).  The code divides by 1000 and compares watts as floats; the     *)
(* model keeps the same quantities as exact integers scaled by 1000, so    *)
(* "avg_power < power_threshold" is Sum(readings[1:]) < threshold * n.     *)
(* The rounding of the float division is not modelled.                     *)
(*                                                                         *)
(* The awaits of the code are the points where the model lets the relay    *)
(* be switched by hand (ManualSwitch) and where a call to the plug may     *)
(* raise; a command that raises may or may not have reached the relay.     *)
(***************************************************************************)
EXTENDS Integers, Sequences, FiniteSets, TLC

\* ---------------------------------------------------------------- bounds
MaxSamples == 3
MaxCooldown == 2

\* power_mw values a plug may report, and configured thresholds (in mW)
PowerLevels == {0, 1000, 5000, 10000}
Thresholds == {5000}

\* plug_states: the [plug:<name>] sections of config.ini, numbered in file order
Plugs == {1, 2}
NumPlugs == Cardinality(Plugs)

\* ------------------------------------------------------------- variables
VARIABLES
    cfg,         \* plug_states[name]: sample_duration, cooldown_duration, power_threshold, enabled
    last_state,  \* PlugState.last_state per plug
    timer,       \* PlugState.timer per plug
    is_on,       \* the relay of each plug, as the device has it
    idx,         \* position of main()'s for loop in plug_states (NumPlugs + 1: past the end)
    pc,          \* "main": in main()'s loop body; "sampling": inside control_plug()'s for loop
    readings,    \* control_plug()'s readings list of the current / last pass
    ev,          \* the last thing the loop did: which plug, what happened, the relay commands sent
    off_pending  \* per plug: a turn_off was sent and no cooldown has elapsed since

vars == <<cfg, last_state, timer, is_on, idx, pc, readings, ev, off_pending>>

\* -------------------------------------------------------- pure functions
RECURSIVE Sum(_)
Sum(s) == IF s = <<>> THEN 0 ELSE Head(s) + Sum(Tail(s))

\* readings[1:]
Rest(s) == IF s = <<>> THEN <<>> ELSE Tail(s)

\* variant: the denominator is not floored to 1
Denominator_NoFloor(s) == Len(s) - 1

\* max(1, len(readings) - 1)
Denominator(s) == IF Len(s) - 1 > 1 THEN Len(s) - 1 ELSE 1

\* any(x == 0.0 for x in readings[1:])
AnyZero(s) == \E i \in 1..Len(Rest(s)) : Rest(s)[i] = 0

\* variant: the first reading is averaged in as well
BelowThreshold_WithFirst(s, threshold) == Sum(s) < threshold * Denominator(s)

\* variant: the comparison is not strict
BelowThreshold_NotStrict(s, threshold) == Sum(Rest(s)) <= threshold * Denominator(s)

\* avg_power < state.power_threshold, with avg_power = sum(readings[1:]) / max(1, len(readings) - 1)
BelowThreshold(s, threshold) == Sum(Rest(s)) < threshold * Denominator(s)

\* PlugState.__init__
InitialLastState == "off"
InitialTimer == 0

\* The fields of a plug that is not enabled are never read (main() skips it),
\* so one disabled configuration stands for all of them.
Configs ==
    [sample_duration : 0..MaxSamples,
     cooldown_duration : 0..MaxCooldown,
     power_threshold : Thresholds,
     enabled : {TRUE}]
    \cup
    [sample_duration : {1},
     cooldown_duration : {MaxCooldown},
     power_threshold : Thresholds,
     enabled : {FALSE}]

\* a plug section with short durations; the default threshold of 5.0 W
BaseConfig ==
    [sample_duration |-> 1, cooldown_duration |-> 1, power_threshold |-> 5000, enabled |-> TRUE]

\* config.ini files: one plug section is arbitrary, the others are BaseConfig
ConfigFiles ==
    {c \in [Plugs -> Configs] : \E d \in Plugs : \A e \in Plugs \ {d} : c[e] = BaseConfig}

Event(d, kind, cmds) ==
    [plug |-> d, kind |-> kind, cmds |-> cmds]

\* the pass keeps the record of the evaluation it belongs to
Continue(kind, cmds) == [ev EXCEPT !.kind = kind, !.cmds = cmds]

\* a turn_on sent to plug d ends the bookkeeping of the last turn_off
AfterOn(d) == [off_pending EXCEPT ![d] = FALSE]

Init ==
    /\ cfg \in ConfigFiles
    /\ last_state = [d \in Plugs |-> InitialLastState]
    /\ timer = [d \in Plugs |-> InitialTimer]
    /\ is_on = [d \in Plugs |-> FALSE]
    /\ idx = 1
    /\ pc = "main"
    /\ readings = <<>>
    /\ ev = [plug |-> 0, kind |-> "init", cmds |-> <<>>]
    /\ off_pending = [d \in Plugs |-> FALSE]

\* ------------------------------------------------------------ main loop
AtPlug(d) == pc = "main" /\ idx = d

\* if not state.enabled: continue
SkipDisabled(d) ==
    /\ AtPlug(d)
    /\ ~cfg[d].enabled
    /\ idx' = idx + 1
    /\ ev' = Event(d, "skipped", <<>>)
    /\ readings' = <<>>
    /\ UNCHANGED <<cfg, last_state, timer, is_on, pc, off_pending>>

\* get_device() returned None: continue
ResolveFail(d) ==
    /\ AtPlug(d)
    /\ cfg[d].enabled
    /\ idx' = idx + 1
    /\ ev' = Event(d, "unresolved", <<>>)
    /\ readings' = <<>>
    /\ UNCHANGED <<cfg, last_state, timer, is_on, pc, off_pending>>

\* main()'s own plug.update() raised: continue
UpdateFail(d) ==
    /\ AtPlug(d)
    /\ cfg[d].enabled
    /\ idx' = idx + 1
    /\ ev' = Event(d, "update_failed", <<>>)
    /\ readings' = <<>>
    /\ UNCHANGED <<cfg, last_state, timer, is_on, pc, off_pending>>

InCooldown(d) == last_state[d] = "cooldown" /\ timer[d] > 0

\* variant: last_state is set but the timer is left running
CooldownOverride_KeepsTimer(d) ==
    /\ AtPlug(d)
    /\ cfg[d].enabled
    /\ InCooldown(d)
    /\ is_on[d]
    /\ last_state' = [last_state EXCEPT ![d] = "on"]
    /\ off_pending' = [off_pending EXCEPT ![d] = FALSE]
    /\ idx' = idx + 1
    /\ ev' = Event(d, "override", <<>>)
    /\ readings' = <<>>
    /\ UNCHANGED <<cfg, timer, is_on, pc>>

\* variant: the timer is cleared but last_state is left at "cooldown"
CooldownOverride_KeepsState(d) ==
    /\ AtPlug(d)
    /\ cfg[d].enabled
    /\ InCooldown(d)
    /\ is_on[d]
    /\ timer' = [timer EXCEPT ![d] = 0]
    /\ off_pending' = [off_pending EXCEPT ![d] = FALSE]
    /\ idx' = idx + 1
    /\ ev' = Event(d, "override", <<>>)
    /\ readings' = <<>>
    /\ UNCHANGED <<cfg, last_state, is_on, pc>>

\* cooldown branch, plug.is_on
CooldownOverride(d) ==
    /\ AtPlug(d)
    /\ cfg[d].enabled
    /\ InCooldown(d)
    /\ is_on[d]
    /\ timer' = [timer EXCEPT ![d] = 0]
    /\ last_state' = [last_state EXCEPT ![d] = "on"]
    /\ off_pending' = [off_pending EXCEPT ![d] = FALSE]
    /\ idx' = idx + 1
    /\ ev' = Event(d, "override", <<>>)
    /\ readings' = <<>>
    /\ UNCHANGED <<cfg, is_on, pc>>

\* variant: the countdown ends the cooldown one tick early
CooldownTick_Early(d) ==
    /\ AtPlug(d)
    /\ cfg[d].enabled
    /\ InCooldown(d)
    /\ ~is_on[d]
    /\ timer' = [timer EXCEPT ![d] = IF @ - 2 > 0 THEN @ - 2 ELSE 0]
    /\ off_pending' = [off_pending EXCEPT ![d] = @ /\ timer[d] - 2 > 0]
    /\ idx' = idx + 1
    /\ ev' = Event(d, "countdown", <<>>)
    /\ readings' = <<>>
    /\ UNCHANGED <<cfg, last_state, is_on, pc>>

\* variant: the countdown leaves the timer where it is
CooldownTick_Stuck(d) ==
    /\ AtPlug(d)
    /\ cfg[d].enabled
    /\ InCooldown(d)
    /\ ~is_on[d]
    /\ idx' = idx + 1
    /\ ev' = Event(d, "countdown", <<>>)
    /\ readings' = <<>>
    /\ UNCHANGED <<cfg, last_state, timer, is_on, pc, off_pending>>

\* variant: the countdown adds instead of subtracting
CooldownTick_CountsUp(d) ==
    /\ AtPlug(d)
    /\ cfg[d].enabled
    /\ InCooldown(d)
    /\ ~is_on[d]
    /\ timer' = [timer EXCEPT ![d] = @ + 1]
    /\ idx' = idx + 1
    /\ ev' = Event(d, "countdown", <<>>)
    /\ readings' = <<>>
    /\ UNCHANGED <<cfg, last_state, is_on, pc, off_pending>>

\* cooldown branch, relay off: state.timer -= 1
CooldownTick(d) ==
    /\ AtPlug(d)
    /\ cfg[d].enabled
    /\ InCooldown(d)
    /\ ~is_on[d]
    /\ timer' = [timer EXCEPT ![d] = @ - 1]
    /\ off_pending' = [off_pending EXCEPT ![d] = @ /\ timer[d] - 1 > 0]
    /\ idx' = idx + 1
    /\ ev' = Event(d, "countdown", <<>>)
    /\ readings' = <<>>
    /\ UNCHANGED <<cfg, last_state, is_on, pc>>

\* await asyncio.sleep(1) at the end of a pass over plug_states
TickSleep ==
    /\ pc = "main"
    /\ idx = NumPlugs + 1
    /\ idx' = 1
    /\ ev' = [ev EXCEPT !.kind = "sleep", !.cmds = <<>>]
    /\ readings' = <<>>
    /\ UNCHANGED <<cfg, last_state, timer, is_on, pc, off_pending>>

\* --------------------------------------------------------- control_plug
\* variant: the pass does not look at the enabled flag
StartPass_IgnoresEnabled(d) ==
    /\ AtPlug(d)
    /\ ~InCooldown(d)
    /\ pc' = "sampling"
    /\ readings' = <<>>
    /\ is_on' = [is_on EXCEPT ![d] = TRUE]
    /\ ev' = Event(d, "started", IF is_on[d] THEN <<>> ELSE <<"on">>)
    /\ off_pending' = IF is_on[d] THEN off_pending ELSE AfterOn(d)
    /\ UNCHANGED <<cfg, last_state, timer, idx>>

\* variant: turn_on is sent whether or not the relay is already on
StartPass_AlwaysOn(d) ==
    /\ AtPlug(d)
    /\ cfg[d].enabled
    /\ ~InCooldown(d)
    /\ pc' = "sampling"
    /\ readings' = <<>>
    /\ is_on' = [is_on EXCEPT ![d] = TRUE]
    /\ ev' = Event(d, "started", <<"on">>)
    /\ off_pending' = AfterOn(d)
    /\ UNCHANGED <<cfg, last_state, timer, idx>>

\* plug.update(); if not plug.is_on: turn_on(); sleep(1); readings = []
StartPass(d) ==
    /\ AtPlug(d)
    /\ cfg[d].enabled
    /\ ~InCooldown(d)
    /\ pc' = "sampling"
    /\ readings' = <<>>
    /\ is_on' = [is_on EXCEPT ![d] = TRUE]
    /\ ev' = Event(d, "started", IF is_on[d] THEN <<>> ELSE <<"on">>)
    /\ off_pending' = IF is_on[d] THEN off_pending ELSE AfterOn(d)
    /\ UNCHANGED <<cfg, last_state, timer, idx>>

\* the first plug.update() of control_plug raised
StartPassUpdateFail(d) ==
    /\ AtPlug(d)
    /\ cfg[d].enabled
    /\ ~InCooldown(d)
    /\ idx' = idx + 1
    /\ readings' = <<>>
    /\ ev' = Event(d, "aborted", <<>>)
    /\ UNCHANGED <<cfg, last_state, timer, is_on, pc, off_pending>>

\* plug.turn_on() raised; the relay may or may not have switched
StartPassTurnOnFail(d) ==
    /\ AtPlug(d)
    /\ cfg[d].enabled
    /\ ~InCooldown(d)
    /\ ~is_on[d]
    /\ \E switched \in BOOLEAN : is_on' = IF switched THEN [is_on EXCEPT ![d] = TRUE] ELSE is_on
    /\ idx' = idx + 1
    /\ readings' = <<>>
    /\ ev' = Event(d, "aborted", <<"on">>)
    /\ off_pending' = AfterOn(d)
    /\ UNCHANGED <<cfg, last_state, timer, pc>>

Sampling(d) == pc = "sampling" /\ idx = d

\* what plug.emeter_realtime may give: a power_mw value, or nothing readable
Unreadable == -1
EmeterValues == PowerLevels \cup {Unreadable}

\* try: power = emeter_realtime.get("power_mw", 0) / 1000; except: power = 0.0
ReadPower(emeter) == IF emeter = Unreadable THEN 0 ELSE emeter

\* variant: the second slept after a sample is taken off every running cooldown
Sample_TimePasses(d) ==
    /\ Sampling(d)
    /\ Len(readings) < cfg[d].sample_duration
    /\ \E emeter \in EmeterValues :
          /\ readings' = Append(readings, ReadPower(emeter))
          /\ ev' = Continue(IF emeter = Unreadable THEN "unreadable" ELSE "sampled", ev.cmds)
    /\ timer' = [e \in Plugs |-> IF e # d /\ timer[e] > 0 THEN timer[e] - 1 ELSE timer[e]]
    /\ UNCHANGED <<cfg, last_state, is_on, idx, pc, off_pending>>

\* variant: a sample that cannot be read is left out of the readings
Sample_SkipsUnreadable(d) ==
    /\ Sampling(d)
    /\ Len(readings) < cfg[d].sample_duration
    /\ \E emeter \in EmeterValues :
          /\ readings' = IF emeter = Unreadable THEN readings ELSE Append(readings, emeter)
          /\ ev' = Continue(IF emeter = Unreadable THEN "unreadable" ELSE "sampled", ev.cmds)
    /\ UNCHANGED <<cfg, last_state, timer, is_on, idx, pc, off_pending>>

\* one iteration of the for loop: update, read the power, append it, sleep
Sample(d) ==
    /\ Sampling(d)
    /\ Len(readings) < cfg[d].sample_duration
    /\ \E emeter \in EmeterValues :
          /\ readings' = Append(readings, ReadPower(emeter))
          /\ ev' = Continue(IF emeter = Unreadable THEN "unreadable" ELSE "sampled", ev.cmds)
    /\ UNCHANGED <<cfg, last_state, timer, is_on, idx, pc, off_pending>>

\* variant: the exception is not caught and leaves the loop
SampleFail_Propagates(d) ==
    /\ Sampling(d)
    /\ Len(readings) < cfg[d].sample_duration
    /\ pc' = "halted"
    /\ ev' = Continue("aborted", ev.cmds)
    /\ UNCHANGED <<cfg, last_state, timer, is_on, idx, readings, off_pending>>

\* variant: after the failure the loop handles the same plug again
SampleFail_Retry(d) ==
    /\ Sampling(d)
    /\ Len(readings) < cfg[d].sample_duration
    /\ pc' = "main"
    /\ ev' = Continue("aborted", ev.cmds)
    /\ UNCHANGED <<cfg, last_state, timer, is_on, idx, readings, off_pending>>

\* plug.update() raised inside the for loop
SampleFail(d) ==
    /\ Sampling(d)
    /\ Len(readings) < cfg[d].sample_duration
    /\ pc' = "main"
    /\ idx' = idx + 1
    /\ ev' = Continue("aborted", ev.cmds)
    /\ UNCHANGED <<cfg, last_state, timer, is_on, readings, off_pending>>

Collected(d) == Sampling(d) /\ Len(readings) = cfg[d].sample_duration

\* variant: the zero reading is handled like the "charging" branch
DecideZero_MarksOn(d) ==
    /\ Collected(d)
    /\ AnyZero(readings)
    /\ last_state' = [last_state EXCEPT ![d] = "on"]
    /\ timer' = [timer EXCEPT ![d] = 0]
    /\ pc' = "main"
    /\ idx' = idx + 1
    /\ ev' = Continue("kept_zero", ev.cmds)
    /\ UNCHANGED <<cfg, is_on, readings, off_pending>>

\* a zero among readings[1:]: return
DecideZero(d) ==
    /\ Collected(d)
    /\ AnyZero(readings)
    /\ pc' = "main"
    /\ idx' = idx + 1
    /\ ev' = Continue("kept_zero", ev.cmds)
    /\ UNCHANGED <<cfg, last_state, timer, is_on, readings, off_pending>>

\* below threshold: turn_off(), last_state = "cooldown", timer = cooldown_duration
DecideOff(d) ==
    /\ Collected(d)
    /\ ~AnyZero(readings)
    /\ BelowThreshold(readings, cfg[d].power_threshold)
    /\ is_on' = [is_on EXCEPT ![d] = FALSE]
    /\ last_state' = [last_state EXCEPT ![d] = "cooldown"]
    /\ timer' = [timer EXCEPT ![d] = cfg[d].cooldown_duration]
    /\ off_pending' = [off_pending EXCEPT ![d] = cfg[d].cooldown_duration > 0]
    /\ pc' = "main"
    /\ idx' = idx + 1
    /\ ev' = Continue("turned_off", Append(ev.cmds, "off"))
    /\ UNCHANGED <<cfg, readings>>

\* variant: the state is updated before turn_off() is awaited
DecideOffFail_StateFirst(d) ==
    /\ Collected(d)
    /\ ~AnyZero(readings)
    /\ BelowThreshold(readings, cfg[d].power_threshold)
    /\ \E switched \in BOOLEAN : is_on' = IF switched THEN [is_on EXCEPT ![d] = FALSE] ELSE is_on
    /\ last_state' = [last_state EXCEPT ![d] = "cooldown"]
    /\ timer' = [timer EXCEPT ![d] = cfg[d].cooldown_duration]
    /\ off_pending' = [off_pending EXCEPT ![d] = TRUE]
    /\ pc' = "main"
    /\ idx' = idx + 1
    /\ ev' = Continue("aborted", Append(ev.cmds, "off"))
    /\ UNCHANGED <<cfg, readings>>

\* below threshold, but plug.turn_off() raised; the relay may or may not have switched
DecideOffFail(d) ==
    /\ Collected(d)
    /\ ~AnyZero(readings)
    /\ BelowThreshold(readings, cfg[d].power_threshold)
    /\ \E switched \in BOOLEAN : is_on' = IF switched THEN [is_on EXCEPT ![d] = FALSE] ELSE is_on
    /\ off_pending' = [off_pending EXCEPT ![d] = TRUE]
    /\ pc' = "main"
    /\ idx' = idx + 1
    /\ ev' = Continue("aborted", Append(ev.cmds, "off"))
    /\ UNCHANGED <<cfg, last_state, timer, readings>>

\* else: last_state = "on", timer = 0
DecideOn(d) ==
    /\ Collected(d)
    /\ ~AnyZero(readings)
    /\ ~BelowThreshold(readings, cfg[d].power_threshold)
    /\ last_state' = [last_state EXCEPT ![d] = "on"]
    /\ timer' = [timer EXCEPT ![d] = 0]
    /\ pc' = "main"
    /\ idx' = idx + 1
    /\ ev' = Continue("kept_on", ev.cmds)
    /\ UNCHANGED <<cfg, is_on, readings, off_pending>>

\* ---------------------------------------------------------- environment
\* somebody switches the relay by hand
ManualSwitch(d) ==
    /\ is_on' = [is_on EXCEPT ![d] = ~@]
    /\ UNCHANGED <<cfg, last_state, timer, idx, pc, readings, ev, off_pending>>

Next ==
    \/ \E d \in Plugs : SkipDisabled(d)
    \/ \E d \in Plugs : ResolveFail(d)
    \/ \E d \in Plugs : UpdateFail(d)
    \/ \E d \in Plugs : CooldownOverride(d)
    \/ \E d \in Plugs : CooldownTick(d)
    \/ \E d \in Plugs : StartPass(d)
    \/ \E d \in Plugs : StartPassUpdateFail(d)
    \/ \E d \in Plugs : StartPassTurnOnFail(d)
    \/ \E d \in Plugs : Sample(d)
    \/ \E d \in Plugs : SampleFail(d)
    \/ \E d \in Plugs : DecideZero(d)
    \/ \E d \in Plugs : DecideOff(d)
    \/ \E d \in Plugs : DecideOffFail(d)
    \/ \E d \in Plugs : DecideOn(d)
    \/ \E d \in Plugs : ManualSwitch(d)
    \/ TickSleep

\* config.ini files whose passes take at most two samples: the shortest
\* that still have a zero reading after the first
ShortPassFiles ==
    {c \in ConfigFiles : \A d \in Plugs : c[d].sample_duration <= 2}

LiveInit ==
    /\ cfg \in ShortPassFiles
    /\ last_state = [d \in Plugs |-> InitialLastState]
    /\ timer = [d \in Plugs |-> InitialTimer]
    /\ is_on = [d \in Plugs |-> FALSE]
    /\ idx = 1
    /\ pc = "main"
    /\ readings = <<>>
    /\ ev = [plug |-> 0, kind |-> "init", cmds |-> <<>>]
    /\ off_pending = [d \in Plugs |-> FALSE]

\* a step of the program itself: anything but the relay being switched by hand
LoopStep ==
    \/ \E d \in Plugs : SkipDisabled(d)
    \/ \E d \in Plugs : ResolveFail(d)
    \/ \E d \in Plugs : UpdateFail(d)
    \/ \E d \in Plugs : CooldownOverride(d)
    \/ \E d \in Plugs : CooldownTick(d)
    \/ \E d \in Plugs : StartPass(d)
    \/ \E d \in Plugs : StartPassUpdateFail(d)
    \/ \E d \in Plugs : StartPassTurnOnFail(d)
    \/ \E d \in Plugs : Sample(d)
    \/ \E d \in Plugs : SampleFail(d)
    \/ \E d \in Plugs : DecideZero(d)
    \/ \E d \in Plugs : DecideOff(d)
    \/ \E d \in Plugs : DecideOffFail(d)
    \/ \E d \in Plugs : DecideOn(d)
    \/ TickSleep

Spec == Init /\ [][Next]_vars

\* the event loop keeps running main(): every await returns (or raises) and
\* the coroutine goes on; nothing is assumed of the hand on the relay
LiveSpec == LiveInit /\ [][Next]_vars /\ WF_vars(LoopStep)

TypeOK ==
    /\ cfg \in ConfigFiles
    /\ last_state \in [Plugs -> {"off", "on", "cooldown"}]
    /\ timer \in [Plugs -> 0..MaxCooldown]
    /\ is_on \in [Plugs -> BOOLEAN]
    /\ idx \in 1..(NumPlugs + 1)
    /\ pc \in {"main", "sampling"}
    /\ readings \in UNION {[1..n -> PowerLevels] : n \in 0..MaxSamples}
    /\ off_pending \in [Plugs -> BOOLEAN]

\* =================================================================
\* Vocabulary of the properties, written from the specification's
\* wording and independently of the operators the actions use.
\* =================================================================

\* the non-first samples of a reading sequence
NonFirst(R) == SubSeq(R, 2, Len(R))

\* some non-first sample is exactly zero
MidZero(R) == \E i \in 2..Len(R) : R[i] = 0

\* the number of samples the mean is taken over, floored to 1
MeanCount(R) == IF Len(R) > 2 THEN Len(R) - 1 ELSE 1

\* mean of the non-first samples < t  (both sides multiplied by MeanCount)
MeanBelow(R, t) == Sum(NonFirst(R)) < t * MeanCount(R)

\* mean of the non-first samples = t
MeanEquals(R, t) == Sum(NonFirst(R)) = t * MeanCount(R)

\* the plug the loop handled last
Cur == ev.plug

\* the sampling pass of plug Cur ran to its decision without a communication failure
PassCompleted == ev.kind \in {"kept_zero", "turned_off", "kept_on"}

\* a communication failure ended the handling of plug Cur
FailureKinds == {"unresolved", "update_failed", "aborted"}

\* a turn_off was sent in the handling of plug Cur
SentOff == \E i \in 1..Len(ev.cmds) : ev.cmds[i] = "off"

\* this step is main() handling plug d in its loop body, the handle resolved and refreshed
Handles(d) ==
    /\ pc = "main"
    /\ idx = d
    /\ idx' = d + 1
    /\ ev'.plug = d
    /\ ev'.kind \notin {"skipped", "unresolved", "update_failed"}

\* this step ends the sampling pass of plug d with a decision
Decides(d) ==
    /\ pc = "sampling"
    /\ idx = d
    /\ pc' = "main"
    /\ ev'.kind \in {"kept_zero", "turned_off", "kept_on"}

\* this step ends the handling of plug d with a communication failure
Fails(d) ==
    /\ idx = d
    /\ pc \in {"main", "sampling"}
    /\ ev' # ev
    /\ ev'.plug = d
    /\ ev'.kind \in FailureKinds

C2_AsStated ==
    \A d \in Plugs : (timer[d] > 0) <=> (last_state[d] = "cooldown")

\* C2 (amended): in every reachable state, for every plug, timer > 0
\* implies that last_state is cooldown.  (The converse does not hold:
\* a countdown that reaches 0 leaves last_state at cooldown.)
C2_TimerImpliesCooldown ==
    \A d \in Plugs : (timer[d] > 0) => (last_state[d] = "cooldown")

\* C2 witness: a plug counted down once and still cooling down.
C2_Witness ==
    /\ ev.kind = "countdown"
    /\ timer[Cur] > 0
    /\ last_state[Cur] = "cooldown"

\* -----------------------------------------------------------------
\* C3 (as stated): after a tick in which the handle of a plug could not
\* be resolved, the plug is not in cooldown and its timer is 0.
C3_AsStated ==
    (ev.kind = "unresolved") => (last_state[Cur] # "cooldown" /\ timer[Cur] = 0)

\* -----------------------------------------------------------------
\* C4: when main() handles a plug that is in cooldown with timer T > 0
\* and whose relay is seen off, the timer becomes max(0, T - 1), the
\* phase is unchanged if the timer is still positive, no sampling is
\* started and no relay command is sent.
C4_Step ==
    \A d \in Plugs :
        (Handles(d) /\ last_state[d] = "cooldown" /\ timer[d] > 0 /\ ~is_on[d])
            => /\ timer'[d] = (IF timer[d] - 1 > 0 THEN timer[d] - 1 ELSE 0)
               /\ (timer'[d] > 0 => last_state'[d] = last_state[d])
               /\ pc' = "main"
               /\ readings' = <<>>
               /\ ev'.cmds = <<>>
               /\ is_on' = is_on

C4_CooldownCountdown == [][C4_Step]_vars

\* C4 witness: a countdown from 2 to 1 happened, relay still off.
C4_Witness ==
    /\ ev.kind = "countdown"
    /\ cfg[Cur].cooldown_duration = 2
    /\ timer[Cur] = 1
    /\ ~is_on[Cur]

\* -----------------------------------------------------------------
\* C5: when main() handles a plug that is in cooldown with timer > 0
\* and whose relay is seen on, the timer becomes 0 and the phase "on"
\* whatever the timer was, and no relay command is sent.
C5_Step ==
    \A d \in Plugs :
        (Handles(d) /\ last_state[d] = "cooldown" /\ timer[d] > 0 /\ is_on[d])
            => /\ timer'[d] = 0
               /\ last_state'[d] = "on"
               /\ ev'.cmds = <<>>
               /\ is_on' = is_on
               /\ pc' = "main"

C5_ReappearanceOverride == [][C5_Step]_vars

\* C5 witness: the override happened to a plug with the longest cooldown.
C5_Witness ==
    /\ ev.kind = "override"
    /\ cfg[Cur].cooldown_duration = MaxCooldown
    /\ timer[Cur] = 0
    /\ last_state[Cur] = "on"
    /\ is_on[Cur]

\* -----------------------------------------------------------------
\* C6 (as stated): a turn_on is sent to a plug only if, since the last
\* turn_off sent to it, its timer was counted down to 0 or its relay
\* was seen on during the cooldown; and never while the plug is in
\* cooldown with timer > 0.
C6_TurnOnSent(d) ==
    /\ pc = "main"
    /\ idx = d
    /\ ev' # ev
    /\ ev'.plug = d
    /\ ev'.cmds = <<"on">>

C6_Step ==
    \A d \in Plugs :
        C6_TurnOnSent(d) => (~off_pending[d] /\ ~(last_state[d] = "cooldown" /\ timer[d] > 0))

C6_AsStated == [][C6_Step]_vars

\* -----------------------------------------------------------------
\* C7: a failure while handling one plug (resolution, refresh, sampling
\* or relay command) leaves the loop running at the next plug and
\* changes no other plug's phase or timer.
C7_Step ==
    \A d \in Plugs :
        Fails(d)
            => /\ pc' = "main"
               /\ idx' = d + 1
               /\ \A e \in Plugs \ {d} : last_state'[e] = last_state[e] /\ timer'[e] = timer[e]

C7_FailureIsolation == [][C7_Step]_vars

\* C7 witness: the pass of plug 1 failed, the loop stands at plug 2,
\* which is in the middle of its cooldown.
C7_Witness ==
    /\ ev.kind = "aborted"
    /\ Cur = 1
    /\ pc = "main"
    /\ idx = 2
    /\ last_state[2] = "cooldown"
    /\ timer[2] > 0

\* -----------------------------------------------------------------
\* C8: from the start of a sampling pass up to and including a
\* communication failure in it (first refresh, turn_on, a sample's
\* refresh, the final turn_off), the plug's phase and timer do not
\* change, and after the failure the plug is not in a running cooldown,
\* so the next tick samples it again.
C8_InPass(d) ==
    /\ idx = d
    /\ \/ pc = "main" /\ pc' = "sampling"
       \/ pc = "sampling" /\ readings' # readings
       \/ ev' # ev /\ ev'.plug = d /\ ev'.kind = "aborted"

C8_Step ==
    \A d \in Plugs :
        C8_InPass(d)
            => /\ last_state'[d] = last_state[d]
               /\ timer'[d] = timer[d]
               /\ ~(last_state'[d] = "cooldown" /\ timer'[d] > 0)

C8_FailedPassKeepsState == [][C8_Step]_vars

\* C8 witness: the turn_off at the end of a pass failed after a turn_on
\* and all samples; the plug is still in its initial state.
C8_Witness ==
    /\ ev.kind = "aborted"
    /\ ev.cmds = <<"on", "off">>
    /\ Len(readings) = MaxSamples
    /\ last_state[Cur] = "off"
    /\ timer[Cur] = 0

\* -----------------------------------------------------------------
\* C9 (as stated): a completed pass with a zero among its non-first
\* samples sends no turn_off and leaves the plug in the charging phase
\* (read generously: any phase but cooldown), whatever the mean and the
\* phase before.  (The code has no policy flag: every plug behaves as
\* with keepChargingIfUnplugged set.)
C9_AsStated ==
    (PassCompleted /\ MidZero(readings))
        => (~SentOff /\ last_state[Cur] # "cooldown")

\* C9 (amended): a completed pass with a zero among its non-first
\* samples sends no relay command as its decision and leaves phase and
\* timer as they were before the decision (so the phase is "on" only if
\* it was "on" before), with the plug not in a running cooldown.
C9_Step ==
    \A d \in Plugs :
        (Decides(d) /\ MidZero(readings))
            => /\ ev'.cmds = ev.cmds
               /\ is_on' = is_on
               /\ last_state'[d] = last_state[d]
               /\ timer'[d] = timer[d]
               /\ timer'[d] = 0

C9_ZeroReadingKeepsRelay == [][C9_Step]_vars

\* C9 witness: a pass with a zero reading and a mean below the
\* threshold completed for a plug whose phase was "on"; the relay is on.
C9_Witness ==
    /\ ev.kind = "kept_zero"
    /\ MidZero(readings)
    /\ MeanBelow(readings, cfg[Cur].power_threshold)
    /\ last_state[Cur] = "on"
    /\ is_on[Cur]

\* -----------------------------------------------------------------
\* C10 (as stated): a completed pass whose mean is greater than or
\* equal to the threshold sends no turn_off and leaves the plug in the
\* charging phase (read generously: any phase but cooldown), timer 0.
C10_AsStated ==
    (PassCompleted /\ ~MeanBelow(readings, cfg[Cur].power_threshold))
        => (~SentOff /\ last_state[Cur] # "cooldown" /\ timer[Cur] = 0)

\* C10 (amended): a completed pass whose mean is greater than or equal
\* to the threshold sends no turn_off and leaves timer 0; the phase
\* becomes "on" when no non-first sample is zero and is unchanged when
\* one is.
C10_Step ==
    \A d \in Plugs :
        (Decides(d) /\ ~MeanBelow(readings, cfg[d].power_threshold))
            => /\ ev'.cmds = ev.cmds
               /\ timer'[d] = 0
               /\ (~MidZero(readings) => last_state'[d] = "on")
               /\ (MidZero(readings) => last_state'[d] = last_state[d])

C10_StrictThreshold == [][C10_Step]_vars

\* C10 witness: a pass whose mean equals the threshold exactly, without
\* a zero reading, left the plug "on".
C10_Witness ==
    /\ ev.kind = "kept_on"
    /\ Len(readings) = 3
    /\ ~MidZero(readings)
    /\ MeanEquals(readings, cfg[Cur].power_threshold)
    /\ last_state[Cur] = "on"
    /\ timer[Cur] = 0

\* -----------------------------------------------------------------
\* C11 (as stated): on every tick in which a plug is unreachable, no
\* relay command is sent to it, its relay is left alone, and its state
\* is reset (not in cooldown, timer 0); this holding for each such tick,
\* it holds for any number of consecutive ones.
C11_Unreachable(d) ==
    /\ pc = "main"
    /\ idx = d
    /\ ev' # ev
    /\ ev'.plug = d
    /\ ev'.kind = "unresolved"

C11_Step ==
    \A d \in Plugs :
        C11_Unreachable(d)
            => /\ ev'.cmds = <<>>
               /\ is_on' = is_on
               /\ last_state'[d] # "cooldown"
               /\ timer'[d] = 0

C11_AsStated == [][C11_Step]_vars

\* -----------------------------------------------------------------
\* C12: for every plug the timer is an integer between 0 and the
\* configured cooldown duration, and a step that changes the timer
\* either strictly decreases it or sets it to the cooldown duration.
C12_Step ==
    \A d \in Plugs :
        /\ timer[d] \in 0..cfg[d].cooldown_duration
        /\ timer'[d] \in 0..cfg[d].cooldown_duration
        /\ (timer'[d] # timer[d])
              => (timer'[d] < timer[d] \/ timer'[d] = cfg[d].cooldown_duration)

C12_TimerMoves == [][C12_Step]_vars

\* C12 witness: a pass that switched the relay on for sampling ended
\* with a turn_off that set the timer to the longest cooldown duration.
C12_Witness ==
    /\ ev.kind = "turned_off"
    /\ cfg[Cur].cooldown_duration = MaxCooldown
    /\ timer[Cur] = MaxCooldown
    /\ ev.cmds = <<"on", "off">>
    /\ is_on[Cur] = FALSE

\* -----------------------------------------------------------------
\* C13: in a completed pass the decision is a function of the non-first
\* samples only: turn_off is sent exactly when none of them is zero and
\* their sum divided by max(1, len - 1) is below the threshold, and the
\* plug ends "on" when none is zero and the mean is not below.  With at
\* most one sample the mean is 0, and with a positive threshold turn_off
\* is sent and the plug enters cooldown with timer = cooldown_duration.
C13_MeanOfNonFirst ==
    PassCompleted
        => /\ SentOff <=> (~MidZero(readings) /\ MeanBelow(readings, cfg[Cur].power_threshold))
           /\ (~MidZero(readings) /\ ~MeanBelow(readings, cfg[Cur].power_threshold))
                 => last_state[Cur] = "on"
           /\ (Len(readings) <= 1 /\ cfg[Cur].power_threshold > 0)
                 => /\ Sum(NonFirst(readings)) = 0
                    /\ SentOff
                    /\ last_state[Cur] = "cooldown"
                    /\ timer[Cur] = cfg[Cur].cooldown_duration

\* C13 witness: a pass of a single, large sample switched the relay off.
C13_Witness ==
    /\ ev.kind = "turned_off"
    /\ readings = <<10000>>
    /\ cfg[Cur].power_threshold > 0
    /\ last_state[Cur] = "cooldown"
    /\ timer[Cur] = cfg[Cur].cooldown_duration

\* -----------------------------------------------------------------
\* C14: the loop moves through plug_states in one direction and goes
\* back to the first plug only at the end of a tick; a handling of the
\* plug at the loop position either moves the loop on or starts that
\* plug's pass; while a pass runs the loop stays at its plug, and the
\* end of the pass moves the loop on; relay commands are sent only for
\* the plug at the loop position, at most two per handling.  So a plug
\* is handled at most once per tick, its pass is over before it is
\* handled again, and its commands never overlap.
C14_Step ==
    /\ (idx' < idx) => (pc = "main" /\ pc' = "main" /\ idx = NumPlugs + 1 /\ idx' = 1)
    /\ (pc = "main" /\ ev' # ev /\ ev'.kind # "sleep")
          => /\ ev'.plug = idx
             /\ (pc' = "sampling" /\ idx' = idx) \/ (pc' = "main" /\ idx' = idx + 1)
    /\ (pc = "sampling" /\ pc' = "sampling") => (idx' = idx /\ ev'.plug = idx)
    /\ (pc = "sampling" /\ pc' # "sampling") => (pc' = "main" /\ idx' = idx + 1 /\ ev'.plug = idx)
    /\ (ev'.cmds # ev.cmds /\ ev'.cmds # <<>>) => (ev'.plug = idx /\ Len(ev'.cmds) <= 2)

C14_OneHandlingPerTick == [][C14_Step]_vars

\* C14 witness: the second plug is in the middle of its pass while the
\* first, handled earlier in the tick, has its cooldown still to run.
C14_Witness ==
    /\ pc = "sampling"
    /\ idx = 2
    /\ Len(readings) = 2
    /\ cfg[2].sample_duration = MaxSamples
    /\ ev.cmds = <<"on">>
    /\ last_state[1] = "cooldown"
    /\ timer[1] = cfg[1].cooldown_duration
    /\ timer[1] > 0

\* -----------------------------------------------------------------
\* C15: a pass sends turn_on exactly when it sees the relay off at its
\* start, before any sample is taken and at most once; the only other
\* command of a pass is one turn_off, sent after all samples have been
\* collected.
C15_Step ==
    \A d \in Plugs :
        /\ (pc = "main" /\ idx = d /\ pc' = "sampling")
              => /\ ev'.cmds = (IF is_on[d] THEN <<>> ELSE <<"on">>)
                 /\ readings' = <<>>
        /\ (pc = "main" /\ idx = d /\ ev' # ev /\ ev'.cmds # <<>>)
              => (ev'.cmds = <<"on">> /\ ~is_on[d])
        /\ (pc = "sampling" /\ idx = d /\ ev'.cmds # ev.cmds)
              => /\ ev'.cmds = Append(ev.cmds, "off")
                 /\ Len(readings) = cfg[d].sample_duration
                 /\ readings' = readings
                 /\ pc' = "main"

C15_CommandsOfAPass ==
    /\ [](ev.cmds \in {<<>>, <<"on">>, <<"off">>, <<"on", "off">>})
    /\ [][C15_Step]_vars

\* C15 witness: a pass that found the relay off sent turn_on, took all
\* its samples and then sent turn_off.
C15_Witness ==
    /\ ev.kind = "turned_off"
    /\ ev.cmds = <<"on", "off">>
    /\ Len(readings) = MaxSamples
    /\ ~MidZero(readings)
    /\ ~is_on[Cur]

\* -----------------------------------------------------------------
\* C16: a power reading that cannot be read is appended to readings as
\* 0 and does not end the pass, which goes on in the for loop with the
\* plug's state untouched; a pass reaches its decision only with the
\* full number of samples, and there the 0 counts like any other sample:
\* in a non-first position it is a mid-sample zero and part of the sum.
C16_Step ==
    \A d \in Plugs :
        (pc = "sampling" /\ idx = d /\ ev'.kind = "unreadable" /\ (ev' # ev \/ readings' # readings))
            => /\ readings' = Append(readings, 0)
               /\ pc' = "sampling"
               /\ idx' = idx
               /\ last_state' = last_state
               /\ timer' = timer
               /\ ev'.cmds = ev.cmds
               /\ (Len(readings) >= 1 => MidZero(readings'))
               /\ Sum(NonFirst(readings')) = Sum(NonFirst(readings))

C16_UnreadableIsZero ==
    /\ [](PassCompleted => (Len(readings) = cfg[Cur].sample_duration
                             /\ (MidZero(readings) => (ev.kind = "kept_zero" /\ ~SentOff))))
    /\ [][C16_Step]_vars

\* C16 witness: the last sample of a full pass could not be read; it
\* stands in readings as 0 after two non-zero samples.
C16_Witness ==
    /\ pc = "sampling"
    /\ ev.kind = "unreadable"
    /\ Len(readings) = 3
    /\ Len(readings) = cfg[Cur].sample_duration
    /\ readings[1] # 0
    /\ readings[2] # 0
    /\ readings[3] = 0

\* -----------------------------------------------------------------
\* C17: a plug that is not enabled is only ever skipped: it is never
\* resolved, never sampled, never sent a relay command (its relay only
\* moves by hand), and its phase and timer keep their initial values.
C17_Step ==
    \A d \in Plugs :
        (~cfg[d].enabled /\ is_on'[d] # is_on[d]) => ev' = ev

C17_DisabledIsSkipped ==
    /\ [](\A d \in Plugs :
            ~cfg[d].enabled
                => /\ last_state[d] = InitialLastState
                   /\ timer[d] = InitialTimer
                   /\ ~(pc = "sampling" /\ idx = d)
                   /\ (ev.plug = d => (ev.kind \in {"skipped", "sleep"} /\ ev.cmds = <<>>)))
    /\ [][C17_Step]_vars

\* C17 witness: the first plug, not enabled and with its relay on, has
\* been skipped again in a tick after the one that put the second plug
\* into cooldown.
C17_Witness ==
    /\ ~cfg[1].enabled
    /\ ev.plug = 1
    /\ ev.kind = "skipped"
    /\ idx = 2
    /\ is_on[1]
    /\ last_state[1] = InitialLastState
    /\ last_state[2] = "cooldown"

\* -----------------------------------------------------------------
\* C18: a plug's phase becomes cooldown, or its timer is raised, only in
\* the step in which the turn_off of its own pass returned: the command
\* is the last of the pass, the relay is off, the timer is the cooldown
\* duration.  A turn_off that raises leaves phase and timer as they
\* were.
C18_Step ==
    \A d \in Plugs :
        /\ ((last_state'[d] = "cooldown" /\ last_state[d] # "cooldown") \/ timer'[d] > timer[d])
              => /\ pc = "sampling"
                 /\ idx = d
                 /\ Len(readings) = cfg[d].sample_duration
                 /\ ev'.plug = d
                 /\ ev'.kind = "turned_off"
                 /\ ev'.cmds = Append(ev.cmds, "off")
                 /\ ~is_on'[d]
                 /\ last_state'[d] = "cooldown"
                 /\ timer'[d] = cfg[d].cooldown_duration
        /\ (pc = "sampling" /\ idx = d /\ ev'.kind = "aborted" /\ ev'.cmds = Append(ev.cmds, "off"))
              => (last_state'[d] = last_state[d] /\ timer'[d] = timer[d])

C18_CooldownOnlyAfterTurnOff == [][C18_Step]_vars

\* C18 witness: the turn_off of a pass raised although the relay did
\* switch; the plug, "on" before the pass, is still "on" with timer 0.
C18_Witness ==
    /\ ev.kind = "aborted"
    /\ SentOff
    /\ ~is_on[Cur]
    /\ last_state[Cur] = "on"
    /\ timer[Cur] = 0
    /\ cfg[Cur].cooldown_duration > 0

\* -----------------------------------------------------------------
\* C19: the timer of a plug changes only in a step in which the loop
\* stands at that plug and moves past it, so at most once per tick and
\* never during another plug's pass; a tick in which the plug is not
\* resolved or not refreshed leaves it alone; a countdown takes off
\* exactly 1, whatever the time the tick took.
C19_Step ==
    \A d \in Plugs :
        /\ (timer'[d] # timer[d]) => (idx = d /\ idx' = d + 1 /\ pc' = "main" /\ ev'.plug = d)
        /\ (idx # d) => timer'[d] = timer[d]
        /\ (ev' # ev /\ ev'.plug = d /\ ev'.kind \in {"unresolved", "update_failed"})
              => timer'[d] = timer[d]
        /\ (ev' # ev /\ ev'.plug = d /\ ev'.kind = "countdown")
              => (timer[d] > 0 /\ timer'[d] = timer[d] - 1)

C19_OneCountPerTick == [][C19_Step]_vars

\* C19 witness: the first plug is two samples into its pass while the
\* second plug's cooldown stands where the last tick left it.
C19_Witness ==
    /\ pc = "sampling"
    /\ idx = 1
    /\ Len(readings) = 2
    /\ last_state[2] = "cooldown"
    /\ timer[2] = 1
    /\ cfg[2].cooldown_duration = 1
    /\ off_pending[2]

\* -----------------------------------------------------------------
\* C20: cooldown always ends.  With the loop running on and every pass
\* ending, an enabled plug in cooldown with timer > 0 gets, unless a tick
\* comes in which it cannot be resolved or refreshed, to timer 0, and
\* then to a tick that calls control_plug for it again.
C20_NotReachable(d) ==
    ev.plug = d /\ ev.kind \in {"unresolved", "update_failed"}

C20_PassCalled(d) ==
    /\ ev.plug = d
    /\ ev.kind \in {"started", "aborted"}
    /\ timer[d] = 0

C20_CooldownEnds ==
    \A d \in Plugs :
        /\ (cfg[d].enabled /\ last_state[d] = "cooldown" /\ timer[d] > 0)
              ~> (timer[d] = 0 \/ C20_NotReachable(d))
        /\ (cfg[d].enabled /\ last_state[d] = "cooldown" /\ timer[d] > 0)
              ~> (C20_PassCalled(d) \/ C20_NotReachable(d))

\* C20 witness: a plug with the longest cooldown, counted down to 0 with
\* its relay off all the while, has its next pass started.
C20_Witness ==
    /\ ev.kind = "started"
    /\ ev.cmds = <<"on">>
    /\ cfg[Cur].cooldown_duration = MaxCooldown
    /\ last_state[Cur] = "cooldown"
    /\ timer[Cur] = 0
    /\ ~off_pending[Cur]
====
